---------------------------- MODULE Spec2Model ----------------------------
(***************************************************************************)
(* Model of src/app.py (ATLAS-HADITH v1.5): the Arabic text normalizer,    *)
(* the isnad canonicalizer, the core-match predicate, the search / unit /  *)
(* analysis pages and the session state that routes between them.          *)
(*                                                                         *)
(* Text is a sequence of Unicode code points.  A value that may be None    *)
(* (Python None / pandas NaN) is a record [isna, val].                     *)
(***************************************************************************)
EXTENDS Integers, Sequences, FiniteSets, TLC

(***************************************************************************)
(* Code points used by the source and by the inputs of the model.          *)
(***************************************************************************)
SPACE == 32
DOT == 46
FATHA == 1614
ALEF_MADDA == 1570
ALEF_HAMZA_ABOVE == 1571
ALEF_HAMZA_BELOW == 1573
ALEF == 1575
BEH == 1576
TEH_MARBUTA == 1577
TEH == 1578
THEH == 1579
HAH == 1581
KHAH == 1582
DAL == 1583
REH == 1585
SEEN == 1587
AIN == 1593
QAF == 1602
LAM == 1604
MEEM == 1605
NOON == 1606
HEH == 1607
ALEF_MAKSURA == 1609
YEH == 1610

None == [isna |-> TRUE, val |-> <<>>]
Some(v) == [isna |-> FALSE, val |-> v]

(***************************************************************************)
(* Character classes of the regular expressions.                           *)
(***************************************************************************)
\* AR_DIACRITICS: U+0617-U+061A, U+064B-U+0652, U+0670, U+06D6-U+06ED
AR_DIACRITICS(c) ==
    \/ (1559 <= c /\ c <= 1562)
    \/ (1611 <= c /\ c <= 1618)
    \/ c = 1648
    \/ (1750 <= c /\ c <= 1773)

\* \s on the characters of the model: tab..CR, FS..US, space.
IsSpace(c) == (9 <= c /\ c <= 13) \/ (28 <= c /\ c <= 32)

\* \w on the ASCII range; every other character of the model lies in the
\* Arabic block, which the pattern of line 53 keeps as a whole.
IsWord(c) ==
    \/ (48 <= c /\ c <= 57)
    \/ (65 <= c /\ c <= 90)
    \/ c = 95
    \/ (97 <= c /\ c <= 122)

InArabicBlock(c) == 1536 <= c /\ c <= 1791

\* [^\w\s U+0600-U+06FF]: the characters line 53 replaces by a space
IsStripped(c) == ~(IsWord(c) \/ IsSpace(c) \/ InArabicBlock(c))

(***************************************************************************)
(* String helpers (Python str / re semantics).                             *)
(***************************************************************************)
\* the letter replacements of lines 51-52
MapLetter(c) ==
    CASE c = ALEF_HAMZA_ABOVE -> ALEF
      [] c = ALEF_HAMZA_BELOW -> ALEF
      [] c = ALEF_MADDA -> ALEF
      [] c = ALEF_MAKSURA -> YEH
      [] c = TEH_MARBUTA -> HEH
      [] OTHER -> c

RECURSIVE CollapseFrom(_, _)
\* re.sub(r"\s+", " ", s): every maximal run of whitespace becomes one space
CollapseFrom(s, i) ==
    IF i > Len(s) THEN <<>>
    ELSE IF IsSpace(s[i])
         THEN IF i > 1 /\ IsSpace(s[i - 1])
              THEN CollapseFrom(s, i + 1)
              ELSE <<SPACE>> \o CollapseFrom(s, i + 1)
         ELSE <<s[i]>> \o CollapseFrom(s, i + 1)

CollapseSpaces(s) == CollapseFrom(s, 1)

RECURSIVE LStrip(_)
LStrip(s) == IF s # <<>> /\ IsSpace(Head(s)) THEN LStrip(Tail(s)) ELSE s

RECURSIVE RStrip(_)
RStrip(s) ==
    IF s # <<>> /\ IsSpace(s[Len(s)]) THEN RStrip(SubSeq(s, 1, Len(s) - 1)) ELSE s

\* str.strip()
Strip(s) == RStrip(LStrip(s))

\* s[i:i+len(w)] == w
MatchAt(s, w, i) ==
    /\ i + Len(w) - 1 <= Len(s)
    /\ \A k \in 1..Len(w) : s[i + k - 1] = w[k]

\* w in s (substring), w non-empty
Contains(s, w) == \E i \in 1..Len(s) : MatchAt(s, w, i)

RECURSIVE RemoveFrom(_, _, _)
\* s.replace(w, ""): the non-overlapping occurrences of w, found left to
\* right in one pass, are deleted
RemoveFrom(s, w, i) ==
    IF i > Len(s) THEN <<>>
    ELSE IF MatchAt(s, w, i)
         THEN RemoveFrom(s, w, i + Len(w))
         ELSE <<s[i]>> \o RemoveFrom(s, w, i + 1)

Remove(s, w) == RemoveFrom(s, w, 1)

RECURSIVE SplitFrom(_, _, _)
\* str.split(): the maximal runs of non-whitespace, in order
SplitFrom(s, i, cur) ==
    IF i > Len(s) THEN (IF cur = <<>> THEN <<>> ELSE <<cur>>)
    ELSE IF IsSpace(s[i])
         THEN (IF cur = <<>> THEN <<>> ELSE <<cur>>) \o SplitFrom(s, i + 1, <<>>)
         ELSE SplitFrom(s, i + 1, Append(cur, s[i]))

Split(s) == SplitFrom(s, 1, <<>>)

RECURSIVE Join(_)
\* " ".join(words)
Join(words) ==
    IF words = <<>> THEN <<>>
    ELSE IF Len(words) = 1 THEN words[1]
    ELSE words[1] \o <<SPACE>> \o Join(Tail(words))

\* the set of elements of a sequence
Range(s) == {s[i] : i \in DOMAIN s}

(***************************************************************************)
(* NORMALIZATION                                                           *)
(***************************************************************************)
normalize_ar(text) ==
    IF text.isna \/ text.val = <<>> THEN <<>>
    ELSE LET t1 == SelectSeq(text.val, LAMBDA c : ~AR_DIACRITICS(c))
             t2 == [i \in DOMAIN t1 |-> MapLetter(t1[i])]
             t3 == [i \in DOMAIN t2 |-> IF IsStripped(t2[i]) THEN SPACE ELSE t2[i]]
         IN  Strip(CollapseSpaces(t3))

tokenize_ar(text) == Split(normalize_ar(text))

(***************************************************************************)
(* ISNAD                                                                   *)
(***************************************************************************)
\* the list of line 66
FormulaWords ==
    << <<HAH, DAL, THEH, NOON, ALEF>>,
       <<ALEF, KHAH, BEH, REH, NOON, ALEF>>,
       <<QAF, ALEF, LAM>>,
       <<SEEN, MEEM, AIN, TEH>>,
       <<AIN, NOON>> >>

RECURSIVE RemoveWords(_, _)
\* the loop of lines 66-67, one replace per word, in list order
RemoveWords(s, k) ==
    IF k > Len(FormulaWords) THEN s
    ELSE RemoveWords(Remove(s, FormulaWords[k]), k + 1)

normalize_isnad(isnad) ==
    IF isnad.isna \/ isnad.val = <<>> THEN None
    ELSE Some(Strip(CollapseSpaces(RemoveWords(normalize_ar(isnad), 1))))

(***************************************************************************)
(* STRICT CORE MATCH                                                       *)
(***************************************************************************)
\* sum(1 for t in ref_tokens if t in cand_tokens)
Shared(ref_tokens, cand_tokens) ==
    Cardinality({i \in DOMAIN ref_tokens : ref_tokens[i] \in Range(cand_tokens)})

\* mutant: the candidate split without being normalized
contains_core_RawCandidate(reference, candidate) ==
    LET ref_tokens == tokenize_ar(reference)
        cand_tokens == Split(candidate.val)
        shared == Shared(ref_tokens, cand_tokens)
    IN  IF ref_tokens = <<>> THEN FALSE
        ELSE IF Len(ref_tokens) <= 4
             THEN shared >= Len(ref_tokens) - 1
             ELSE 10 * shared >= 8 * Len(ref_tokens)

contains_core(reference, candidate) ==
    LET ref_tokens == tokenize_ar(reference)
        cand_tokens == tokenize_ar(candidate)
        shared == Shared(ref_tokens, cand_tokens)
    IN  IF ref_tokens = <<>> THEN FALSE
        ELSE IF Len(ref_tokens) <= 4
             THEN shared >= Len(ref_tokens) - 1
             \* shared / len >= 0.8, in exact arithmetic
             ELSE 10 * shared >= 8 * Len(ref_tokens)

(***************************************************************************)
(* Bounds and inputs of the model.                                         *)
(***************************************************************************)
\* rows of the CSV file in the corpus of Spec
MaxRecords == 2
\* narration paths of the unit in the corpus of SpecScore
MaxPaths == 3
\* words of the reference / candidate texts of SpecCore
MaxRefWords == 5
MaxCandWords == 2
\* characters of the raw isnad of SpecIsnad
MaxIsnadLen == 4

\* selectbox options, list(range(11))
ScoreOptions == 0..10
\* selectbox index=7
DefaultScore == 7

\* rows hadith_data.csv may hold: hadith_key, matn, isnad (NaN when empty)
RecordPool ==
    { [hadith_key |-> "h1", matn |-> Some(<<AIN, NOON, SPACE, BEH>>), isnad |-> None],
      [hadith_key |-> "h1", matn |-> Some(<<AIN, NOON, BEH, DOT>>),
       isnad |-> Some(<<QAF, ALEF, LAM, SPACE, AIN, NOON>>)],
      [hadith_key |-> "h2", matn |-> Some(<<BEH, SPACE, LAM>>),
       isnad |-> Some(<<AIN, NOON, SPACE, LAM, BEH>>)],
      [hadith_key |-> "h2", matn |-> Some(<<BEH, FATHA>>),
       isnad |-> Some(<<AIN, NOON, LAM>>)] }

\* texts the user may type in the search box
QueryPool ==
    { <<>>, <<SPACE>>, <<DOT>>, <<AIN, NOON>>, <<AIN, NOON, SPACE, BEH>>,
      <<AIN, NOON, SPACE, LAM>>, <<MEEM>> }

RECURSIVE SeqsUpTo(_, _)
\* the sequences over S of length 0..n
SeqsUpTo(S, n) ==
    IF n = 0 THEN {<<>>}
    ELSE LET shorter == SeqsUpTo(S, n - 1)
         IN  shorter \cup {Append(q, x) : q \in {r \in shorter : Len(r) = n - 1}, x \in S}

(***************************************************************************)
(* State.                                                                  *)
(***************************************************************************)
VARIABLES
    df,               \* load_data(): the rows, with matn_norm and isnad_norm
    page,             \* st.session_state.page
    active_hadith,    \* st.session_state.active_hadith
    similar_results,  \* st.session_state.similar_results: None or row numbers of df
    query,            \* the text of the search box at the last search
    and_results,      \* page_search: the rows the AND stage kept, None if not run
    results,          \* page_search: the rows whose units are listed with a select button
    scores,           \* page_analysis: the selectbox value of every path
    final,            \* page_analysis: the final score written, in tenths, or None
    unit_bar,         \* page_analysis: the bar drawn for the final score, or None
    path_bars,        \* page_analysis: the bar drawn for every path
    pc,               \* "app", or the position of a direct call: "call", "done"
    core_reference,   \* contains_core: argument
    core_candidate,   \* contains_core: argument
    core_match,       \* contains_core: result
    raw_isnad,        \* normalize_isnad: argument
    isnad_key         \* normalize_isnad: result

vars == <<df, page, active_hadith, similar_results, query, and_results, results,
          scores, final, unit_bar, path_bars, pc, core_reference, core_candidate,
          core_match, raw_isnad, isnad_key>>

session == <<page, active_hadith, similar_results>>
search_out == <<query, and_results, results>>
analysis_out == <<scores, final, unit_bar, path_bars>>
call_vars == <<pc, core_reference, core_candidate, core_match, raw_isnad, isnad_key>>

(***************************************************************************)
(* DATA                                                                    *)
(***************************************************************************)
load_data(csv) ==
    [i \in DOMAIN csv |->
        [hadith_key |-> csv[i].hadith_key,
         matn |-> csv[i].matn,
         isnad |-> csv[i].isnad,
         matn_norm |-> normalize_ar(csv[i].matn),
         isnad_norm |-> normalize_isnad(csv[i].isnad)]]

(***************************************************************************)
(* VISUAL BAR                                                              *)
(***************************************************************************)
\* Python round() of num/den: to the nearest integer, ties to the even one
RoundHalfEven(num, den) ==
    LET q == num \div den
        r == num % den
    IN  IF 2 * r < den THEN q
        ELSE IF 2 * r > den THEN q + 1
        ELSE IF q % 2 = 0 THEN q ELSE q + 1

\* render_bar(score), score given in tenths: opacity 1 (TRUE) or 0.25 (FALSE)
\* of each of the ten colours
render_bar(score10) ==
    LET active == RoundHalfEven(score10, 10) - 1
    IN  [i \in 0..9 |-> i <= active]

(***************************************************************************)
(* PAGE 3 - ANALYSIS: what one run of page_analysis draws                  *)
(***************************************************************************)
\* data.groupby("isnad_norm"): the keys; rows whose key is None are dropped
GroupKeys(rows) == {df[i].isnad_norm.val : i \in {j \in rows : ~df[j].isnad_norm.isna}}

RECURSIVE SumOver(_, _)
SumOver(f, S) ==
    IF S = {} THEN 0
    ELSE LET x == CHOOSE y \in S : TRUE IN f[x] + SumOver(f, S \ {x})

\* sum(scores)
SumScores(sc) == SumOver(sc, DOMAIN sc)

\* mutant: the sum divided by the number of distinct scores
FinalScore_DistinctCount(sc) ==
    RoundHalfEven(10 * SumScores(sc), Cardinality({sc[k] : k \in DOMAIN sc}))

\* round(sum(scores) / len(scores), 1), in tenths
FinalScore(sc) == RoundHalfEven(10 * SumScores(sc), Cardinality(DOMAIN sc))

\* mutant: the guard "if scores" dropped, an empty list scored 0
RenderFinal_Unguarded(sc) == Some(IF DOMAIN sc # {} THEN FinalScore(sc) ELSE 0)

\* lines 233-237
RenderFinal(sc) == IF DOMAIN sc # {} THEN Some(FinalScore(sc)) ELSE None

RenderUnitBar(sc) == IF DOMAIN sc # {} THEN Some(render_bar(FinalScore(sc))) ELSE None

\* the selectbox values of a run: a widget drawn for the first time has index 7
Widgets(rows) == [k \in GroupKeys(rows) |-> DefaultScore]

page_analysis(sc) ==
    /\ scores' = sc
    /\ path_bars' = [k \in DOMAIN sc |-> render_bar(10 * sc[k])]
    /\ final' = RenderFinal(sc)
    /\ unit_bar' = RenderUnitBar(sc)

\* a run of another page draws none of the analysis widgets
NoAnalysis ==
    /\ scores' = <<>>
    /\ path_bars' = <<>>
    /\ final' = None
    /\ unit_bar' = None

(***************************************************************************)
(* PAGE 1 - SEARCH                                                         *)
(***************************************************************************)
Rows == DOMAIN df

\* lines 147-151: the rows whose matn_norm contains every token
AndSearch(tokens) ==
    {i \in Rows : \A k \in DOMAIN tokens : Contains(df[i].matn_norm, tokens[k])}

\* lines 157-158: the rows whose matn_norm matches tok1|tok2|...
OrSearch(tokens) ==
    {i \in Rows : \E k \in DOMAIN tokens : Contains(df[i].matn_norm, tokens[k])}

\* the button "search" pressed with text q in the box
page_search(q) ==
    /\ pc = "app"
    /\ page = "search"
    /\ query' = q
    /\ LET stripped == Strip(q)
           tokens == tokenize_ar(Some(stripped))
       IN  IF stripped = <<>> \/ tokens = <<>>
           THEN and_results' = None /\ results' = {}
           ELSE /\ and_results' = Some(AndSearch(tokens))
                /\ results' = IF AndSearch(tokens) # {} THEN AndSearch(tokens)
                              ELSE OrSearch(tokens)
    /\ UNCHANGED <<df, session, analysis_out, call_vars>>

\* a run that does not take the branch of the search button lists nothing
NoSearch ==
    /\ query' = <<>>
    /\ and_results' = None
    /\ results' = {}

\* results.groupby("hadith_key")
ResultKeys == {df[i].hadith_key : i \in results}

\* the button "select this hadith" of unit key
SelectUnit(key) ==
    /\ pc = "app"
    /\ page = "search"
    /\ key \in ResultKeys
    /\ active_hadith' = key
    /\ page' = "unit"
    /\ NoSearch
    /\ UNCHANGED <<df, similar_results, analysis_out, call_vars>>

(***************************************************************************)
(* PAGE 2 - HADITH UNIT                                                    *)
(***************************************************************************)
\* df[df["hadith_key"] == key]
UnitRows(key) == {i \in Rows : df[i].hadith_key = key}

\* data.iloc[0]
First(rows) == CHOOSE i \in rows : \A j \in rows : i <= j

\* go(page): set the page and rerun
go(p) == page' = p

\* the button "find similar"
FindSimilar ==
    /\ pc = "app"
    /\ page = "unit"
    /\ UnitRows(active_hadith) # {}
    /\ LET ref == df[First(UnitRows(active_hadith))].matn
           sim == {i \in Rows : contains_core(ref, df[i].matn)}
       IN  /\ similar_results' = Some(sim)
           /\ page_analysis(Widgets(sim))
    /\ go("analysis")
    /\ UNCHANGED <<df, active_hadith, search_out, call_vars>>

\* the button "go to analysis"
GoToAnalysis ==
    /\ pc = "app"
    /\ page = "unit"
    /\ UnitRows(active_hadith) # {}
    /\ similar_results' = Some(UnitRows(active_hadith))
    /\ page_analysis(Widgets(UnitRows(active_hadith)))
    /\ go("analysis")
    /\ UNCHANGED <<df, active_hadith, search_out, call_vars>>

\* the button "back to search"
BackToSearch ==
    /\ pc = "app"
    /\ page = "unit"
    /\ UnitRows(active_hadith) # {}
    /\ go("search")
    /\ UNCHANGED <<df, active_hadith, similar_results, search_out, analysis_out, call_vars>>

(***************************************************************************)
(* PAGE 3 - ANALYSIS: the events                                           *)
(***************************************************************************)
\* the selectbox of path k set to v
SelectScore(k, v) ==
    /\ pc = "app"
    /\ page = "analysis"
    /\ k \in DOMAIN scores
    /\ v # scores[k]
    /\ page_analysis([scores EXCEPT ![k] = v])
    /\ UNCHANGED <<df, session, search_out, call_vars>>

\* mutant: the selection cleared on the way back
BackToUnit_ClearsSelection ==
    /\ pc = "app"
    /\ page = "analysis"
    /\ go("unit")
    /\ active_hadith' = "None"
    /\ NoAnalysis
    /\ UNCHANGED <<df, similar_results, search_out, call_vars>>

\* the button "back to the unit"
BackToUnit ==
    /\ pc = "app"
    /\ page = "analysis"
    /\ go("unit")
    /\ NoAnalysis
    /\ UNCHANGED <<df, active_hadith, similar_results, search_out, call_vars>>

(***************************************************************************)
(* ROUTING: the events of the page the session state names                 *)
(***************************************************************************)
route ==
    \/ \E q \in QueryPool : page_search(q)
    \/ \E key \in {"h1", "h2"} : SelectUnit(key)
    \/ FindSimilar
    \/ GoToAnalysis
    \/ BackToSearch
    \/ \E k \in DOMAIN scores : \E v \in ScoreOptions : SelectScore(k, v)
    \/ BackToUnit

(***************************************************************************)
(* The application on a corpus of up to MaxRecords rows.                   *)
(***************************************************************************)
NoCall ==
    /\ pc = "app"
    /\ core_reference = None
    /\ core_candidate = None
    /\ core_match = FALSE
    /\ raw_isnad = None
    /\ isnad_key = None

\* lines 14-21 and 94
Start(csv) ==
    /\ df = load_data(csv)
    /\ page = "search"
    /\ active_hadith = "None"
    /\ similar_results = None
    /\ query = <<>>
    /\ and_results = None
    /\ results = {}
    /\ scores = <<>>
    /\ path_bars = <<>>
    /\ final = None
    /\ unit_bar = None

Init ==
    /\ \E csv \in SeqsUpTo(RecordPool, MaxRecords) : Start(csv)
    /\ NoCall

Next == route

Spec == Init /\ [][Next]_vars

(***************************************************************************)
(* The application on one unit with 0..MaxPaths narration paths: the       *)
(* analysis page with up to MaxPaths selectboxes.                          *)
(***************************************************************************)
RECURSIVE Repeat(_, _)
Repeat(c, n) == IF n = 0 THEN <<>> ELSE <<c>> \o Repeat(c, n - 1)

\* the reference row, without isnad and with a matn of its own, then n rows
\* of the same unit with n distinct isnads
PathCorpus(n) ==
    << [hadith_key |-> "h1", matn |-> Some(<<LAM, SPACE, MEEM>>), isnad |-> None] >>
    \o [k \in 1..n |->
           [hadith_key |-> "h1", matn |-> Some(<<AIN, NOON, SPACE, BEH>>),
            isnad |-> Some(Repeat(BEH, k))]]

InitScore ==
    /\ \E n \in 0..MaxPaths : Start(PathCorpus(n))
    /\ NoCall

SpecScore == InitScore /\ [][Next]_vars

(***************************************************************************)
(* Direct calls of contains_core and of normalize_isnad.                   *)
(***************************************************************************)
\* words of the texts handed to contains_core: a plain word, a word that
\* normalization rewrites (hamza, diacritic), a word of punctuation only
WordPool == { <<BEH>>, <<ALEF_HAMZA_ABOVE, NOON, FATHA>>, <<DOT>> }

\* non-empty texts without any token: whitespace, diacritics, punctuation
TokenlessTexts == { <<SPACE>>, <<FATHA>>, <<DOT, SPACE, FATHA>> }

\* characters of the raw isnads handed to normalize_isnad
IsnadAlphabet == {AIN, NOON, BEH, SPACE, QAF, ALEF, LAM}

CallContainsCore ==
    /\ pc = "call"
    /\ pc' = "done"
    /\ core_match' = contains_core(core_reference, core_candidate)
    /\ UNCHANGED <<df, session, search_out, analysis_out, core_reference,
                   core_candidate, raw_isnad, isnad_key>>

InitCore ==
    /\ Start(<<>>)
    /\ pc = "call"
    /\ core_reference \in {Some(Join(ws)) : ws \in SeqsUpTo(WordPool, MaxRefWords)}
                          \cup {Some(t) : t \in TokenlessTexts}
    /\ \E ws \in SeqsUpTo(WordPool, MaxCandWords) :
          core_candidate \in {Some(Join(ws)), core_reference}
    /\ core_match = FALSE
    /\ raw_isnad = None
    /\ isnad_key = None

SpecCore == InitCore /\ [][CallContainsCore]_vars

CallNormalizeIsnad ==
    /\ pc = "call"
    /\ pc' = "done"
    /\ isnad_key' = normalize_isnad(raw_isnad)
    /\ UNCHANGED <<df, session, search_out, analysis_out, core_reference,
                   core_candidate, core_match, raw_isnad>>

InitIsnad ==
    /\ Start(<<>>)
    /\ pc = "call"
    /\ core_reference = None
    /\ core_candidate = None
    /\ core_match = FALSE
    /\ raw_isnad \in {None} \cup {Some(t) : t \in SeqsUpTo(IsnadAlphabet, MaxIsnadLen)}
    /\ isnad_key = None

SpecIsnad == InitIsnad /\ [][CallNormalizeIsnad]_vars

(***************************************************************************)
(* Properties.                                                             *)
(***************************************************************************)
Min(a, b) == IF a <= b THEN a ELSE b
Max(a, b) == IF a >= b THEN a ELSE b
Clamp(x, lo, hi) == Max(lo, Min(x, hi))

\* the tokens of the arguments of the direct call of contains_core
RefTokens == tokenize_ar(core_reference)
CandTokens == tokenize_ar(core_candidate)

\* C1: a reference of 1 to 4 tokens matches only if every one of its tokens
\* is a token of the candidate; a reference of more than 4 tokens matches
\* exactly when shared / |R| >= 0.8.
C1_ShortPhraseExact ==
    pc = "done" =>
        /\ (Len(RefTokens) \in 1..4 /\ core_match)
              => \A i \in DOMAIN RefTokens : RefTokens[i] \in Range(CandTokens)
        /\ Len(RefTokens) > 4
              => (core_match <=> 10 * Shared(RefTokens, CandTokens) >= 8 * Len(RefTokens))

MaxOver(sc) == CHOOSE m \in {sc[k] : k \in DOMAIN sc} : \A k \in DOMAIN sc : sc[k] <= m

\* clamp(0.6 max + 0.3 mean + 0.1 min(n,5) + referenceBonus, 0, 10) rounded
\* to one decimal, in tenths
ClaimedAggregate(sc) ==
    LET n == Cardinality(DOMAIN sc)
        bonus == IF n = 1 /\ MaxOver(sc) >= 8 THEN 1 ELSE 0
        num == (6 * MaxOver(sc) + Min(n, 5) + 10 * bonus) * n + 3 * SumScores(sc)
    IN  Clamp(RoundHalfEven(num, n), 0, 100)

\* C2: the final score written on the analysis page is
\* clamp(0.6 max + 0.3 mean + 0.1 min(n,5) + referenceBonus, 0, 10), rounded
\* to one decimal, for every non-empty sequence of path scores.
C2_UnitScoreFormula ==
    (page = "analysis" /\ DOMAIN scores # {}) => final = Some(ClaimedAggregate(scores))

IsFormulaWord(t) == \E k \in DOMAIN FormulaWords : t = FormulaWords[k]

\* C3: normalize_isnad drops exactly the tokens equal to a formula word and
\* rejoins the others with single spaces; a token that only contains a
\* formula word is left unchanged.
C3_WholeTokenRemoval ==
    (pc = "done" /\ ~isnad_key.isna) =>
        isnad_key.val = Join(SelectSeq(tokenize_ar(raw_isnad), LAMBDA t : ~IsFormulaWord(t)))

\* C4: a row whose canonical isnad is empty has isnad_norm None (undefined),
\* and the analysis page never shows a path keyed by the empty string.
C4_EmptyIsnadNoPath ==
    page = "analysis" =>
        /\ \A i \in similar_results.val : df[i].isnad_norm # Some(<<>>)
        /\ <<>> \notin DOMAIN scores

\* one selectbox of the analysis page is raised, the others keep their value
OneScoreRaised ==
    /\ page = "analysis"
    /\ page' = "analysis"
    /\ DOMAIN scores' = DOMAIN scores
    /\ \E k \in DOMAIN scores :
          /\ scores'[k] >= scores[k]
          /\ \A j \in DOMAIN scores \ {k} : scores'[j] = scores[j]

\* C5: with the other path scores fixed, the final score written on the
\* analysis page does not decrease when one path score is raised.
C5_Monotone == [][OneScoreRaised => final'.val >= final.val]_vars

\* C5 witness: an analysis page of several paths on which a score has been
\* raised to 10 and another lowered below the default.
C5_Witness ==
    /\ page = "analysis"
    /\ Cardinality(DOMAIN scores) >= 2
    /\ \E k \in DOMAIN scores : scores[k] = 10
    /\ \E k \in DOMAIN scores : scores[k] < DefaultScore
    /\ ~final.isna

\* C6: an analysis page whose result set yields no narration path writes no
\* final score and draws no bar for the unit.
C6_NoPathsNoScore ==
    (page = "analysis" /\ GroupKeys(similar_results.val) = {}) =>
        (final = None /\ unit_bar = None)

\* C6 witness: the analysis page reached through "find similar" with a
\* non-empty result set, other than the unit's rows, that has no path.
C6_Witness ==
    /\ page = "analysis"
    /\ similar_results.val # {}
    /\ similar_results.val # UnitRows(active_hadith)
    /\ GroupKeys(similar_results.val) = {}
    /\ final = None

\* positions 0..clamp(round(score) - 1, 0, 9) active, the others inactive
ClaimedBar(score10) ==
    [i \in 0..9 |-> i <= Clamp(RoundHalfEven(score10, 10) - 1, 0, 9)]

\* C7: render_bar marks active exactly the positions
\* 0..clamp(round(score) - 1, 0, 9); position 0 is active for every score.
C7_BarClamped ==
    page = "analysis" =>
        /\ \A k \in DOMAIN scores : path_bars[k] = ClaimedBar(10 * scores[k])
        /\ ~final.isna => unit_bar = Some(ClaimedBar(final.val))

\* C8 as stated: contains_core(r, r) is true for every non-empty text r.
C8_ReflexiveNonEmptyText ==
    (pc = "done" /\ core_candidate = core_reference /\ core_reference.val # <<>>)
        => core_match

\* C8 amended: contains_core(r, r) is true exactly when r has at least one
\* token; for a text without tokens it is false.
C8_ReflexiveOnTokens ==
    (pc = "done" /\ core_candidate = core_reference)
        => (core_match <=> RefTokens # <<>>)

\* C8 witness: a reference of several tokens, rewritten by normalization,
\* matched against itself.
C8_Witness ==
    /\ pc = "done"
    /\ core_candidate = core_reference
    /\ Len(RefTokens) >= 2
    /\ RefTokens # Split(core_reference.val)
    /\ core_match

\* C9: the AND stage keeps a row exactly when every token of the query is a
\* member of the token set of the row's normalized matn.
C9_AndByTokenMembership ==
    ~and_results.isna =>
        and_results.val =
            {i \in Rows : \A k \in DOMAIN tokenize_ar(Some(query)) :
                tokenize_ar(Some(query))[k] \in Range(Split(df[i].matn_norm))}

\* the state part of the navigation invariant
NavigationInv ==
    /\ page \in {"search", "unit", "analysis"}
    /\ page = "unit" => (active_hadith # "None" /\ UnitRows(active_hadith) # {})
    /\ page = "analysis" =>
          /\ ~similar_results.isna
          /\ active_hadith # "None"
          /\ UnitRows(active_hadith) # {}

\* the unit page is entered from the search page only with a key listed there
EnterUnitBySelection ==
    (page = "search" /\ page' = "unit") => active_hadith' \in ResultKeys

\* C10: the page is always search, unit or analysis; on the unit page
\* active_hadith is a unit key that was listed in the search results and
\* selected; on the analysis page similar_results and active_hadith are set,
\* so that "back to unit" lands on a unit with data.
C10_Navigation == []NavigationInv /\ [][EnterUnitBySelection]_vars

\* C10 witness: back on the unit page after a visit of the analysis page.
C10_Witness ==
    /\ page = "unit"
    /\ ~similar_results.isna
    /\ active_hadith \in {df[i].hadith_key : i \in Rows}

=============================================================================
